---- MODULE Spec2Model ----
(***************************************************************************)
(* Model of src/IRL/planner.py: the value-iteration and policy-iteration   *)
(* planners, run one after the other on the same environment as the        *)
(* module's test_plan driver does.                                         *)
(*                                                                         *)
(* Numbers.  The planners compute in binary floating point.  Every number  *)
(* of the model is a dyadic rational <<n, e>> standing for n / 2^e, kept   *)
(* normalised (n odd, or <<0, 0>>).  Rewards are small integers, gamma     *)
(* and the transition probabilities are 0, 1/2 or 1 and the threshold is   *)
(* a power of two, so every product and sum the planners form is a dyadic  *)
(* rational of far fewer than 53 significant bits: float64 computes it     *)
(* exactly and the model's arithmetic is the code's arithmetic.  (The      *)
(* sign of a floating-point zero is not modelled; it never changes a       *)
(* comparison, a max or an argmax.)                                        *)
(***************************************************************************)
EXTENDS Integers, Sequences, FiniteSets, TLC

\* ------------------------------------------------------------------ bounds
MaxStates  == 2     \* environments have 1..MaxStates states
MaxActions == 2     \* and 1..MaxActions actions
MaxReward  == 1     \* rewards are the integers -MaxReward..MaxReward
MaxSweeps  == 8     \* sweeps followed inside one convergence loop
MaxPasses  == 5     \* evaluate/improve passes followed in policy iteration

\* ------------------------------------------------------- float arithmetic
RECURSIVE Pow2(_)
Pow2(k) == IF k = 0 THEN 1 ELSE 2 * Pow2(k - 1)

RECURSIVE Norm(_, _)
Norm(n, e) ==
    IF n = 0 THEN <<0, 0>>
    ELSE IF e > 0 /\ n % 2 = 0 THEN Norm(n \div 2, e - 1)
    ELSE <<n, e>>

Zero == <<0, 0>>
One  == <<1, 0>>
Half == <<1, 1>>
Int2F(i) == <<i, 0>>

\* numerator of x over the denominator 2^e, e >= x[2]
Lift(x, e) == x[1] * Pow2(e - x[2])
MaxExp(x, y) == IF x[2] >= y[2] THEN x[2] ELSE y[2]

Add(x, y) == Norm(Lift(x, MaxExp(x, y)) + Lift(y, MaxExp(x, y)), MaxExp(x, y))
Sub(x, y) == Norm(Lift(x, MaxExp(x, y)) - Lift(y, MaxExp(x, y)), MaxExp(x, y))
Mul(x, y) == Norm(x[1] * y[1], x[2] + y[2])
Less(x, y) == Lift(x, MaxExp(x, y)) < Lift(y, MaxExp(x, y))
Leq(x, y) == ~Less(y, x)
Abs(x) == IF x[1] < 0 THEN <<-x[1], x[2]>> ELSE x
\* Python's max(a, b): b only when it is strictly greater
Max2(x, y) == IF Less(x, y) THEN y ELSE x
\* (not done) as the 0/1 factor of the continuation term
NotDone(done) == IF done THEN Zero ELSE One

\* max(list): the first greatest element
RECURSIVE max_from(_, _, _)
max_from(seq, i, best) ==
    IF i > Len(seq) THEN best
    ELSE max_from(seq, i + 1, Max2(best, seq[i]))
max(seq) == max_from(seq, 2, seq[1])

\* np.argmax(row): the lowest index (from 0) of a greatest element
RECURSIVE argmax_from(_, _, _)
argmax_from(row, i, best) ==
    IF i > Len(row) THEN best - 1
    ELSE argmax_from(row, i + 1, IF Less(row[best], row[i]) THEN i ELSE best)
argmax(row) == argmax_from(row, 2, 1)

\* ------------------------------------------------------------ environment
None == -1                      \* the absent next state
Rewards == {Int2F(i) : i \in (0 - MaxReward)..MaxReward}
Gammas == {Zero, Half, One}
Thresholds == {<<1, 4>>, One}           \* 1/16 and 1

VARIABLES
    n_states,       \* env.observation_space.n
    n_actions,      \* env.action_space.n
    reward_func,    \* env.reward_func: state -> (reward, done)
    transit_func,   \* env.transit_func: (state, action) -> ordered mapping
    gamma,          \* plan's gamma
    threshold,      \* plan's threshold
    pc,             \* where the driver is
    V,              \* ValuteIterationPlanner.plan's V
    delta,          \* delta of the last sweep of the running loop
    vi_sweeps,      \* sweeps done by ValuteIterationPlanner.plan
    policy,         \* PolicyIterationPlanner.policy
    polidy,         \* PolicyIterationPlanner.polidy, each entry as the quotient it is
    Ve,             \* estimate_by_policy's V
    est_sweeps,     \* sweeps done by the running estimate_by_policy call
    Vpi,            \* PolicyIterationPlanner.plan's V
    passes,         \* completed passes of PolicyIterationPlanner.plan's loop
    update_stable,  \* update_stable at the end of the last pass
    transit_calls,  \* the (state, action) pairs env.transit_func was called with
    outcomes        \* what the last direct transitions_at call yielded

vars == <<n_states, n_actions, reward_func, transit_func, gamma, threshold,
          pc, V, delta, vi_sweeps, policy, polidy, Ve, est_sweeps, Vpi,
          passes, update_stable, transit_calls, outcomes>>

env_vars == <<n_states, n_actions, reward_func, transit_func, gamma, threshold>>

states  == 0..(n_states - 1)
actions == 0..(n_actions - 1)

\* the mappings transit_func may return over n states: all the mass on one
\* state, or half of it on each of two states (listed lower state first: the
\* planners' sums do not depend on the order of the entries)
TransitionMaps(n) ==
    {<<[next_state |-> t, prob |-> One]>> : t \in 0..(n - 1)}
    \cup {<<[next_state |-> t[1], prob |-> Half],
            [next_state |-> t[2], prob |-> Half]>> :
            t \in {u \in (0..(n - 1)) \X (0..(n - 1)) : u[1] < u[2]}}

zeros(n) == [s \in 0..(n - 1) |-> Zero]

\* --------------------------------------------------------------- Planner
transit_calls_at(state, action) ==
    IF ~reward_func[state].done THEN {<<state, action>>} ELSE {}

\* transitions_at without its second reward_func call
transitions_at_own_reward(state, action) ==
    IF ~reward_func[state].done
    THEN LET transition_probs == transit_func[<<state, action>>]
         IN  [i \in 1..Len(transition_probs) |->
                [p    |-> transition_probs[i].prob,
                 n_s  |-> transition_probs[i].next_state,
                 r    |-> reward_func[state].reward,
                 done |-> reward_func[state].done]]
    ELSE <<[p |-> One, n_s |-> None,
            r |-> reward_func[state].reward, done |-> reward_func[state].done]>>

transitions_at(state, action) ==
    IF ~reward_func[state].done
    THEN LET transition_probs == transit_func[<<state, action>>]
         IN  [i \in 1..Len(transition_probs) |->
                [p    |-> transition_probs[i].prob,
                 n_s  |-> transition_probs[i].next_state,
                 r    |-> reward_func[transition_probs[i].next_state].reward,
                 done |-> reward_func[transition_probs[i].next_state].done]]
    ELSE <<[p |-> One, n_s |-> None,
            r |-> reward_func[state].reward, done |-> reward_func[state].done]>>

\* ------------------------------------------------ ValuteIterationPlanner
RECURSIVE vi_reward_from(_, _, _, _)
vi_reward_from(outs, i, reward, Vv) ==
    IF i > Len(outs) THEN reward
    ELSE IF outs[i].n_s = None
         THEN vi_reward_from(outs, i + 1, outs[i].r, Vv)
         ELSE vi_reward_from(outs, i + 1,
                Add(reward, Mul(outs[i].p,
                    Add(outs[i].r, Mul(Mul(gamma, Vv[outs[i].n_s]),
                                       NotDone(outs[i].done))))), Vv)

vi_expected_rewards(s, Vv) ==
    [k \in 1..n_actions |-> vi_reward_from(transitions_at(s, k - 1), 1, Zero, Vv)]

\* the sweep with delta taken after V[s] is overwritten
RECURSIVE vi_sweep_from_delta_late(_, _, _)
vi_sweep_from_delta_late(s, Vv, d) ==
    IF s >= n_states THEN [V |-> Vv, delta |-> d]
    ELSE LET max_reward == max(vi_expected_rewards(s, Vv))
         IN  vi_sweep_from_delta_late(s + 1, [Vv EXCEPT ![s] = max_reward],
                           Max2(d, Abs(Sub(max_reward, max_reward))))

\* the sweep writing into a fresh array, every backup reading the old one
RECURSIVE vi_sweep_from_fresh_array(_, _, _)
vi_sweep_from_fresh_array(s, Vv, d) ==
    IF s >= n_states THEN [V |-> Vv, delta |-> d]
    ELSE LET max_reward == max(vi_expected_rewards(s, V))
         IN  vi_sweep_from_fresh_array(s + 1, [Vv EXCEPT ![s] = max_reward],
                           Max2(d, Abs(Sub(max_reward, Vv[s]))))

RECURSIVE vi_sweep_from(_, _, _)
vi_sweep_from(s, Vv, d) ==
    IF s >= n_states THEN [V |-> Vv, delta |-> d]
    ELSE LET max_reward == max(vi_expected_rewards(s, Vv))
         IN  vi_sweep_from(s + 1, [Vv EXCEPT ![s] = max_reward],
                           Max2(d, Abs(Sub(max_reward, Vv[s]))))

vi_sweep(Vv) == vi_sweep_from(0, Vv, Zero)

\* ------------------------------------------------ PolicyIterationPlanner
\* the accumulation with the terminal reward weighted by action_prob too
RECURSIVE est_reward_from_weighted(_, _, _, _, _)
est_reward_from_weighted(outs, i, reward, action_prob, Vv) ==
    IF i > Len(outs) THEN reward
    ELSE IF outs[i].n_s = None
         THEN est_reward_from_weighted(outs, i + 1, Mul(action_prob, outs[i].r),
                                       action_prob, Vv)
         ELSE est_reward_from_weighted(outs, i + 1,
                Add(reward, Mul(Mul(action_prob, outs[i].p),
                    Add(outs[i].r, Mul(Mul(gamma, Vv[outs[i].n_s]),
                                       NotDone(outs[i].done))))),
                action_prob, Vv)

RECURSIVE est_reward_from(_, _, _, _, _)
est_reward_from(outs, i, reward, action_prob, Vv) ==
    IF i > Len(outs) THEN reward
    ELSE IF outs[i].n_s = None
         THEN est_reward_from(outs, i + 1, outs[i].r, action_prob, Vv)
         ELSE est_reward_from(outs, i + 1,
                Add(reward, Mul(Mul(action_prob, outs[i].p),
                    Add(outs[i].r, Mul(Mul(gamma, Vv[outs[i].n_s]),
                                       NotDone(outs[i].done))))),
                action_prob, Vv)

est_expected_rewards(s, pol, Vv) ==
    [k \in 1..n_actions |->
        est_reward_from(transitions_at(s, k - 1), 1, Zero, pol[s][k], Vv)]

RECURSIVE est_sweep_from(_, _, _, _)
est_sweep_from(s, pol, Vv, d) ==
    IF s >= n_states THEN [V |-> Vv, delta |-> d]
    ELSE LET max_reward == max(est_expected_rewards(s, pol, Vv))
         IN  est_sweep_from(s + 1, pol, [Vv EXCEPT ![s] = max_reward],
                            Max2(d, Abs(Sub(max_reward, Vv[s]))))

est_sweep(pol, Vv) == est_sweep_from(0, pol, Vv, Zero)

RECURSIVE imp_reward_from(_, _, _, _)
imp_reward_from(outs, i, reward, Vv) ==
    IF i > Len(outs) THEN reward
    ELSE IF outs[i].n_s = None
         THEN imp_reward_from(outs, i + 1, outs[i].r, Vv)
         ELSE imp_reward_from(outs, i + 1,
                Add(reward, Mul(outs[i].p,
                    Add(outs[i].r, Mul(Mul(gamma, Vv[outs[i].n_s]),
                                       NotDone(outs[i].done))))), Vv)

action_rewards(s, Vv) ==
    [k \in 1..n_actions |-> imp_reward_from(transitions_at(s, k - 1), 1, Zero, Vv)]

policy_action(s, pol) == argmax(pol[s])
best_action(s, Vv) == argmax(action_rewards(s, Vv))

\* the row "zeros, then 1.0 at best_action"
greedy_row(b) == [k \in 1..n_actions |-> IF k - 1 = b THEN One ELSE Zero]

\* the improvement that rewrites a row only when its action changed
improved_policy_if_changed(Vv) ==
    [s \in states |-> IF policy_action(s, policy) # best_action(s, Vv)
                      THEN greedy_row(best_action(s, Vv)) ELSE policy[s]]

improved_policy(Vv) == [s \in states |-> greedy_row(best_action(s, Vv))]

\* update_stable as set by the last state of the loop alone
stable_last(pol, Vv) ==
    policy_action(n_states - 1, pol) = best_action(n_states - 1, Vv)

stable(pol, Vv) == \A s \in states : policy_action(s, pol) = best_action(s, Vv)

all_transit_calls == UNION {transit_calls_at(s, a) : s \in states, a \in actions}

\* ------------------------------------------------------------------ Init
Init ==
    /\ n_states \in 1..MaxStates
    /\ n_actions \in 1..MaxActions
    /\ reward_func \in [0..(n_states - 1) -> [reward : Rewards, done : BOOLEAN]]
    /\ transit_func \in [(0..(n_states - 1)) \X (0..(n_actions - 1))
                            -> TransitionMaps(n_states)]
    /\ gamma \in Gammas
    /\ threshold \in Thresholds
    /\ pc = "vi_plan"
    /\ V = <<>>
    /\ delta = Zero
    /\ vi_sweeps = 0
    /\ policy = <<>>
    /\ polidy = <<>>
    /\ Ve = <<>>
    /\ est_sweeps = 0
    /\ Vpi = <<>>
    /\ passes = 0
    /\ update_stable = TRUE
    /\ transit_calls = {}
    /\ outcomes = <<>>

\* --------------------------------------------------------------- actions
\* ValuteIterationPlanner.plan up to its loop: V = np.zeros(len(states))
VIStart ==
    /\ pc = "vi_plan"
    /\ V' = zeros(n_states)
    /\ pc' = "vi_loop"
    /\ UNCHANGED <<env_vars, delta, vi_sweeps, policy, polidy, Ve, est_sweeps,
                   Vpi, passes, update_stable, transit_calls, outcomes>>

\* one iteration of ValuteIterationPlanner.plan's while loop
VISweep ==
    /\ pc = "vi_loop"
    /\ vi_sweeps < MaxSweeps
    /\ LET res == vi_sweep(V)
       IN  /\ V' = res.V
           /\ delta' = res.delta
           /\ pc' = IF Less(res.delta, threshold) THEN "vi_returned" ELSE "vi_loop"
    /\ vi_sweeps' = vi_sweeps + 1
    /\ transit_calls' = transit_calls \cup all_transit_calls
    /\ UNCHANGED <<env_vars, policy, polidy, Ve, est_sweeps, Vpi, passes,
                   update_stable, outcomes>>

\* PolicyIterationPlanner.plan up to its first estimate_by_policy call
PIInitialize ==
    /\ pc = "vi_returned"
    /\ policy' = [s \in states |-> [k \in 1..n_actions |-> One]]
    /\ polidy' = [s \in states |->
                    [k \in 1..n_actions |-> [num |-> One, den |-> n_actions]]]
    /\ Ve' = zeros(n_states)
    /\ est_sweeps' = 0
    /\ pc' = "pi_estimate"
    /\ UNCHANGED <<env_vars, V, delta, vi_sweeps, Vpi, passes, update_stable,
                   transit_calls, outcomes>>

\* one iteration of estimate_by_policy's while loop
PIEstimateSweep ==
    /\ pc = "pi_estimate"
    /\ est_sweeps < MaxSweeps
    /\ LET res == est_sweep(policy, Ve)
       IN  /\ Ve' = res.V
           /\ delta' = res.delta
           /\ IF Less(res.delta, threshold)
              THEN pc' = "pi_improve" /\ Vpi' = res.V
              ELSE pc' = "pi_estimate" /\ Vpi' = Vpi
    /\ est_sweeps' = est_sweeps + 1
    /\ transit_calls' = transit_calls \cup all_transit_calls
    /\ UNCHANGED <<env_vars, V, vi_sweeps, policy, polidy, passes,
                   update_stable, outcomes>>

\* the improvement for-loop of PolicyIterationPlanner.plan and its test of
\* update_stable
PIImprove ==
    /\ pc = "pi_improve"
    /\ passes < MaxPasses
    /\ update_stable' = stable(policy, Vpi)
    /\ policy' = improved_policy(Vpi)
    /\ passes' = passes + 1
    /\ IF stable(policy, Vpi)
       THEN pc' = "pi_returned" /\ UNCHANGED <<Ve, est_sweeps>>
       ELSE pc' = "pi_estimate" /\ Ve' = zeros(n_states) /\ est_sweeps' = 0
    /\ transit_calls' = transit_calls \cup all_transit_calls
    /\ UNCHANGED <<env_vars, V, delta, vi_sweeps, polidy, Vpi, outcomes>>

Next ==
    \/ VIStart
    \/ VISweep
    \/ PIInitialize
    \/ PIEstimateSweep
    \/ PIImprove

Spec == Init /\ [][Next]_vars


\* a caller's own transitions_at(state, action), consumed to its end
CallTransitionsAt(state, action) ==
    /\ outcomes' = [state |-> state, action |-> action,
                    yielded |-> transitions_at(state, action)]
    /\ transit_calls' = transit_calls \cup transit_calls_at(state, action)
    /\ UNCHANGED <<env_vars, pc, V, delta, vi_sweeps, policy, polidy, Ve,
                   est_sweeps, Vpi, passes, update_stable>>

NextTransitions == \E state \in states, action \in actions : CallTransitionsAt(state, action)

SpecTransitions == Init /\ [][NextTransitions]_vars

\* =================================================================== claims
\* what the claims call a backed-up value:
\* sum over outcomes of p * (r + gamma * V[next] * (1 - done))
OutcomeTerm(o, Vv) ==
    IF o.done THEN Mul(o.p, o.r)
    ELSE Mul(o.p, Add(o.r, Mul(gamma, Vv[o.n_s])))

RECURSIVE SumOutcomes(_, _, _)
SumOutcomes(outs, i, Vv) ==
    IF i > Len(outs) THEN Zero
    ELSE Add(OutcomeTerm(outs[i], Vv), SumOutcomes(outs, i + 1, Vv))

Q(s, a, Vv) == SumOutcomes(transitions_at(s, a), 1, Vv)

IsMaxOverActions(v, s, Vv) ==
    /\ \E a \in actions : Q(s, a, Vv) = v
    /\ \A a \in actions : Leq(Q(s, a, Vv), v)

\* the lowest-indexed action that maximises Q(s, ., Vv)
IsLowestBest(b, s, Vv) ==
    /\ b \in actions
    /\ \A a \in actions : Leq(Q(s, a, Vv), Q(s, b, Vv))
    /\ \A a \in actions : a < b => Less(Q(s, a, Vv), Q(s, b, Vv))

\* the lowest index (from 0) of a greatest entry of a row
IsLowestGreatest(b, row) ==
    /\ b + 1 \in DOMAIN row
    /\ \A k \in DOMAIN row : Leq(row[k], row[b + 1])
    /\ \A k \in DOMAIN row : k < b + 1 => Less(row[k], row[b + 1])

RowSum(row) == SumOutcomes([k \in DOMAIN row |-> [done |-> TRUE, p |-> One, r |-> row[k]]], 1, <<>>)

IsOneHotAt(row, b) ==
    /\ DOMAIN row = 1..n_actions
    /\ \A k \in 1..n_actions : row[k] = IF k - 1 = b THEN One ELSE Zero

IsOneHot(row) == \E b \in actions : IsOneHotAt(row, b)

IsDistribution(row) ==
    /\ DOMAIN row = 1..n_actions
    /\ \A k \in 1..n_actions : Leq(Zero, row[k]) /\ Leq(row[k], One)
    /\ RowSum(row) = One

terminal(s) == reward_func[s].done
VIReturned == pc \notin {"vi_plan", "vi_loop"}
PIReturned == pc = "pi_returned"
PIInitialized == pc \in {"pi_estimate", "pi_improve", "pi_returned"}

\* C1: when a planner has returned, the value it returns for every terminal
\* state is exactly that state's reward, for both planners.
C1_TerminalValueIsReward ==
    /\ VIReturned => \A s \in states : terminal(s) => V[s] = reward_func[s].reward
    /\ PIReturned => \A s \in states : terminal(s) => Vpi[s] = reward_func[s].reward

\* both planners have returned on an environment with a terminal state of
\* non-zero reward, a non-terminal state of another value and gamma = 1/2
C1_Witness ==
    /\ PIReturned
    /\ gamma = Half
    /\ \E s, u \in states :
        /\ terminal(s) /\ reward_func[s].reward # Zero
        /\ ~terminal(u) /\ V[u] # reward_func[s].reward /\ V[u] # Zero
        /\ V[s] = reward_func[s].reward /\ Vpi[s] = reward_func[s].reward


\* the agreement the cross-check asks for: ten thresholds, as 1e-3 is to the
\* default threshold 1e-4
Tolerance == Mul(Int2F(10), threshold)

\* C2: when both planners have returned on the same environment with the
\* same gamma and threshold, their value arrays agree in every state within
\* the tolerance, negative rewards included.
C2_PlannersAgree ==
    PIReturned => \A s \in states : Leq(Abs(Sub(V[s], Vpi[s])), Tolerance)

\* C3: PolicyIterationPlanner.plan never performs more than
\* |states| x |actions| improvement passes.
C3_PassesBounded == passes <= n_states * n_actions

\* C4 as stated: on a single terminal state value iteration returns after
\* exactly one sweep with V[0] equal to the state's reward.
C4_SingleSweep ==
    (n_states = 1 /\ terminal(0) /\ VIReturned)
        => vi_sweeps = 1 /\ V[0] = reward_func[0].reward

\* C4 amended: on a single terminal state value iteration returns V[0] equal
\* to the state's reward, after exactly one sweep when |reward| < threshold
\* and after exactly two sweeps otherwise.
C4_OneOrTwoSweeps ==
    (n_states = 1 /\ terminal(0) /\ VIReturned)
        => /\ V[0] = reward_func[0].reward
           /\ vi_sweeps = IF Less(Abs(reward_func[0].reward), threshold) THEN 1 ELSE 2

\* value iteration has returned on a single terminal state whose reward is
\* not below the threshold
C4_Witness ==
    /\ n_states = 1 /\ terminal(0) /\ pc = "vi_returned"
    /\ ~Less(Abs(reward_func[0].reward), threshold)
    /\ vi_sweeps = 2

\* C5: from the return of initialize() on, every row of policy is a
\* probability distribution over the actions, and right after initialize()
\* every entry is 1/M.
C5_PolicyRowsAreDistributions ==
    PIInitialized =>
        /\ \A s \in states : IsDistribution(policy[s])
        /\ (passes = 0) =>
              \A s \in states : \A k \in 1..n_actions :
                  Mul(policy[s][k], Int2F(n_actions)) = One

\* C6: transitions_at yields, for a terminal state, the one outcome
\* (1.0, None, reward of the state, True) and transit_func is never called
\* for a terminal state; for any other state it yields one outcome per entry
\* of transit_func(state, action), in order, each (probability, next state,
\* reward of the next state, done of the next state), none with a None next
\* state.
C6_TransitionsAt ==
    /\ \A c \in transit_calls : ~terminal(c[1])
    /\ outcomes # <<>> =>
        LET s == outcomes.state
            y == outcomes.yielded
            m == transit_func[<<s, outcomes.action>>]
        IN  IF terminal(s)
            THEN y = <<[p |-> One, n_s |-> None,
                        r |-> reward_func[s].reward, done |-> TRUE]>>
            ELSE /\ Len(y) = Len(m)
                 /\ \A i \in 1..Len(m) :
                        /\ y[i].p = m[i].prob
                        /\ y[i].n_s = m[i].next_state
                        /\ y[i].n_s # None
                        /\ y[i].r = reward_func[m[i].next_state].reward
                        /\ y[i].done = reward_func[m[i].next_state].done

\* the last call was on a terminal state, after a call on a non-terminal
\* state whose mapping has two entries
C6_Witness ==
    /\ outcomes # <<>>
    /\ terminal(outcomes.state)
    /\ outcomes.yielded[1].n_s = None
    /\ \E c \in transit_calls : Len(transit_func[c]) = 2

\* policy evaluation by the probability-weighted sum, swept as the code sweeps
RECURSIVE WeightedValue(_, _, _, _)
WeightedValue(s, row, k, Vv) ==
    IF k > Len(row) THEN Zero
    ELSE Add(Mul(row[k], Q(s, k - 1, Vv)), WeightedValue(s, row, k + 1, Vv))

RECURSIVE WeightedSweepFrom(_, _, _, _)
WeightedSweepFrom(s, pol, Vv, d) ==
    IF s >= n_states THEN [V |-> Vv, delta |-> d]
    ELSE LET v == WeightedValue(s, pol[s], 1, Vv)
         IN  WeightedSweepFrom(s + 1, pol, [Vv EXCEPT ![s] = v],
                               Max2(d, Abs(Sub(v, Vv[s]))))

RECURSIVE WeightedEvalFrom(_, _, _)
WeightedEvalFrom(pol, Vv, k) ==
    IF k = 0 THEN [ok |-> FALSE, V |-> Vv]
    ELSE LET res == WeightedSweepFrom(0, pol, Vv, Zero)
         IN  IF Less(res.delta, threshold) THEN [ok |-> TRUE, V |-> res.V]
             ELSE WeightedEvalFrom(pol, res.V, k - 1)

WeightedEval(pol) == WeightedEvalFrom(pol, zeros(n_states), MaxSweeps)

\* C7: whenever every row of policy is one-hot, the V estimate_by_policy
\* returns equals in every state the V the probability-weighted-sum update
\* computes, negative backed-up values included.
C7_MaxEqualsWeightedSum ==
    (pc = "pi_improve" /\ \A s \in states : IsOneHot(policy[s]))
        => (WeightedEval(policy).ok => Vpi = WeightedEval(policy).V)

\* C8: plan returns at the end of exactly those improvement passes in which
\* every state's best action under the just-evaluated V is the argmax action
\* of its policy row as it stood before the pass, and what it returns is the
\* V of the evaluation just before that pass.
C8_StableBefore ==
    \A s \in states : \E b \in actions :
        IsLowestBest(b, s, Vpi) /\ IsLowestGreatest(b, policy[s])

C8_ReturnsWhenStable ==
    [][ /\ (pc = "pi_improve") =>
              /\ (pc' = "pi_returned") <=> C8_StableBefore
              /\ (pc' # "pi_returned") => pc' = "pi_estimate"
              /\ Vpi' = Vpi /\ Vpi = Ve
        /\ (pc' = "pi_returned") => pc = "pi_improve"
      ]_vars

\* plan has returned, and not at the end of its first pass
C8_Witness == PIReturned /\ passes >= 2 /\ Vpi = Ve /\ update_stable

\* C9: after every improvement pass, and so when plan returns, every row of
\* policy is one-hot on the lowest-indexed action maximising the backed-up
\* value for the V evaluated in that pass.
C9_PolicyIsGreedy ==
    (passes >= 1 /\ pc \in {"pi_estimate", "pi_returned"}) =>
        \A s \in states : \E b \in actions :
            IsLowestBest(b, s, Vpi) /\ IsOneHotAt(policy[s], b)

\* after a pass one row is on action 0 because two actions tie, and another
\* row is on action 1
C9_Witness ==
    /\ passes >= 1 /\ pc \in {"pi_estimate", "pi_returned"}
    /\ n_actions >= 2
    /\ \E s, u \in states :
        /\ ~terminal(s) /\ Q(s, 0, Vpi) = Q(s, 1, Vpi) /\ IsOneHotAt(policy[s], 0)
        /\ IsOneHotAt(policy[u], 1)

\* C10: a sweep of value iteration replaces V[s], in index order, by the
\* maximum over actions of the backed-up value computed from the values
\* already written in this sweep for lower states and the previous sweep's
\* values for the others; delta is the greatest absolute change; and the loop
\* ends after the first sweep with delta < threshold.
C10_GaussSeidelSweep ==
    [][ (pc = "vi_loop") =>
          /\ \A s \in states :
                IsMaxOverActions(V'[s], s,
                    [n \in states |-> IF n < s THEN V'[n] ELSE V[n]])
          /\ \E s \in states : delta' = Abs(Sub(V'[s], V[s]))
          /\ \A s \in states : Leq(Abs(Sub(V'[s], V[s])), delta')
          /\ (pc' = "vi_returned") <=> Less(delta', threshold)
          /\ (pc' # "vi_returned") => pc' = "vi_loop"
          /\ vi_sweeps' = vi_sweeps + 1
      ]_vars

\* value iteration has returned after at least three sweeps on two
\* non-terminal states, the second of which moves to the first
C10_Witness ==
    /\ pc = "vi_returned" /\ vi_sweeps >= 3 /\ gamma = Half
    /\ n_states = 2 /\ ~terminal(0) /\ ~terminal(1)
    /\ transit_func[<<1, 0>>][1].next_state = 0
    /\ V[0] # Zero /\ V[0] # V[1]

====
